---- MODULE Spec2Model ----
(***************************************************************************)
(* Model of tasksB.py: the sandbox guard B12 and the eight operations      *)
(* B3..B10.  Each action is one whole call of an operation.  Strings are   *)
(* sequences of one-character strings, so that startswith, endswith,       *)
(* replace, split and os.path.join are computed character by character.    *)
(* The file system is the set of paths that exist.  The outcome of every   *)
(* external call (HTTP, open, git, database driver, image codec, model,    *)
(* CSV reader) is chosen by the environment: the argument e of an          *)
(* operation names the first external call that fails, or is "none".  The  *)
(* call leaves a log of the guard checks and I/O events it made, in        *)
(* program order.                                                          *)
(* Imports inside the functions are assumed to succeed (the libraries are  *)
(* installed).                                                             *)
(***************************************************************************)
EXTENDS Integers, Sequences, FiniteSets, TLC

VARIABLES fs, call, log, ret, ok, ncalls

vars == <<fs, call, log, ret, ok, ncalls>>

\* Number of calls explored in one behaviour.
MaxCalls == 2

----------------------------------------------------------------------------
\* String literals of the source, as character sequences.

sData == <<"/", "d", "a", "t", "a">>
sEtc == <<"/", "e", "t", "c">>
sSlash == <<"/">>
sMd == <<".", "m", "d">>
sHtml == <<".", "h", "t", "m", "l">>
sDb == <<".", "d", "b">>
sGit == <<".", "g", "i", "t">>
sEmpty == <<>>

\* Python's None as an argument value (no character sequence equals it).
None == <<"None">>

----------------------------------------------------------------------------
\* Python string and path functions.

StartsWith(s, p) == Len(s) >= Len(p) /\ SubSeq(s, 1, Len(p)) = p

EndsWith(s, p) == Len(s) >= Len(p) /\ SubSeq(s, Len(s) - Len(p) + 1, Len(s)) = p

\* str.replace(old, new): every non-overlapping occurrence, left to right.
RECURSIVE Replace(_, _, _)
Replace(s, old, new) ==
    IF Len(s) < Len(old) THEN s
    ELSE IF StartsWith(s, old)
         THEN new \o Replace(SubSeq(s, Len(old) + 1, Len(s)), old, new)
         ELSE <<Head(s)>> \o Replace(Tail(s), old, new)

\* s.split("/")[-1]: what follows the last "/", or all of s.
LastSegment(s) ==
    LET idx == {i \in 1..Len(s) : s[i] = "/"}
    IN  IF idx = {} THEN s
        ELSE LET m == CHOOSE i \in idx : \A j \in idx : j <= i
             IN  SubSeq(s, m + 1, Len(s))

\* os.path.join(a, b): an absolute b discards a.
PathJoin(a, b) ==
    IF StartsWith(b, sSlash) THEN b
    ELSE IF a = sEmpty \/ EndsWith(a, sSlash) THEN a \o b
    ELSE a \o sSlash \o b

----------------------------------------------------------------------------
\* Inputs.

pMd == sData \o <<"/", "a">> \o sMd
pDirMd == sData \o <<"/", "b">> \o sMd \o <<"/", "a">> \o sMd
pPlain == sData \o <<"/", "a">>
pDb == sData \o <<"/", "a">> \o sDb
pRootMd == sData \o sMd
pNew == sData \o <<"/", "n">> \o sMd
pOutMd == sEtc \o <<"/", "a">> \o sMd

pOutDb == sEtc \o <<"/", "a">> \o sDb

Paths == {pMd, pDirMd, pPlain, pDb, pRootMd, pNew, pOutMd}

\* Database paths: '.db' or not, present or not, inside the root or not.
Dbs == {pDb, pPlain, pNew, pOutDb}

\* Image paths: present, missing, outside the root.
Images == {pPlain, pNew, pOutMd}

\* An existing clone of the repository h/q.
dQ == sData \o <<"/", "q">>

InitFiles == {pMd, pDirMd, pPlain, pDb, pRootMd, pOutMd, dQ}

uGit == <<"h", "/", "r">> \o sGit
uPlain == <<"h", "/", "q">>

Urls == {uGit, uPlain}

RelFiles == {<<"a">> \o sMd, pOutMd, pPlain}

Contents == {<<"x">>, <<"y">>}

Resizes == {None, <<"w", "h">>}

qSql == <<"q">>

cCol == <<"c">>

cVal == <<"v">>

----------------------------------------------------------------------------
\* Events and results of a call.

Ev(op, arg, st) == [op |-> op, arg |-> arg, st |-> st]

Res(l, r, o, f) == [log |-> l, ret |-> r, ok |-> o, fs |-> f]

Args(fn, a1, a2, a3) == [fn |-> fn, a1 |-> a1, a2 |-> a2, a3 |-> a3]

\* B12 checking only that the path is absolute.
B12AnyRoot(filepath) == StartsWith(filepath, sSlash)

\* B12: True iff the path starts with '/data'.
B12(filepath) == StartsWith(filepath, sData)

GuardEv(p) == Ev("guard", p, IF B12(p) THEN "ok" ELSE "deny")

\* with open(path, 'w') as file: file.write(...)
WriteFile(path) == <<Ev("open_w", path, "ok"), Ev("close_f", path, "ok")>>

\* B3: fetch a URL and save the body.
B3(url, save_path, f, e) ==
    LET g == <<GuardEv(save_path)>>
    IN  IF ~B12(save_path) THEN Res(g, "None", FALSE, f)
        ELSE IF e = "http"
             THEN Res(g \o <<Ev("http_get", url, "fail")>>, "raise", FALSE, f)
        ELSE IF e = "openw"
             THEN Res(g \o <<Ev("http_get", url, "ok"), Ev("open_w", save_path, "fail")>>,
                      "raise", FALSE, f)
        ELSE Res(g \o <<Ev("http_get", url, "ok")>> \o WriteFile(save_path),
                 "None", TRUE, f \cup {save_path})

\* B4: repo_name and clone_dir derived from the URL.
CloneDir(repo_url) ==
    LET repo_name == Replace(LastSegment(repo_url), sGit, sEmpty)
    IN  sData \o sSlash \o repo_name

\* GitSync without the existence test: always a fresh clone.
GitSyncAlwaysClone(exists) == "git_clone"

\* B4: pull when the clone directory exists, clone otherwise.
GitSync(exists) == IF exists THEN "git_pull" ELSE "git_clone"

\* B4 without its except clause: every exception propagates.
ExceptNothing(kind) == "raise"

\* B4: the only handler is `except subprocess.CalledProcessError`, returning None.
Except(kind) == IF kind = "CalledProcessError" THEN "None" ELSE "raise"

\* B4: the git invocations that follow the write (add, commit; the push is commented out).
GitAfterWrite == <<"git_add", "git_commit">>

\* Runs the git commands cmds in order; exits[i] is whether cmds[i] exits with zero.
RECURSIVE RunGit(_, _, _)
RunGit(cmds, exits, dir) ==
    IF cmds = <<>> THEN <<>>
    ELSE IF ~Head(exits) THEN <<Ev(Head(cmds), dir, "nonzero")>>
    ELSE <<Ev(Head(cmds), dir, "ok")>> \o RunGit(Tail(cmds), Tail(exits), dir)

\* B4: clone or pull, write the file, add and commit.
B4(repo_url, file_path, content, f, e) ==
    LET clone_dir == CloneDir(repo_url)
        exists == clone_dir \in f
        sync == GitSync(exists)
        l1 == <<Ev("exists", clone_dir, IF exists THEN "ok" ELSE "absent")>>
        full_file_path == PathJoin(clone_dir, file_path)
        f1 == IF sync = "git_clone" THEN f \cup {clone_dir} ELSE f
        l2 == l1 \o <<Ev(sync, clone_dir, "ok"), GuardEv(full_file_path)>>
        f2 == f1 \cup {full_file_path}
        after == RunGit(GitAfterWrite, <<e # "add", e # "commit">>, clone_dir)
    IN  IF e = "gitbin"
        THEN Res(l1 \o <<Ev(sync, clone_dir, "fail")>>, Except("FileNotFoundError"), FALSE, f)
        ELSE IF e = "sync"
        THEN Res(l1 \o <<Ev(sync, clone_dir, "nonzero")>>, Except("CalledProcessError"),
                 FALSE, f)
        ELSE IF ~B12(full_file_path) THEN Res(l2, "None", FALSE, f1)
        ELSE IF e = "openw"
        THEN Res(l2 \o <<Ev("open_w", full_file_path, "fail")>>, Except("OSError"), FALSE, f1)
        ELSE IF after[Len(after)].st = "nonzero"
        THEN Res(l2 \o WriteFile(full_file_path) \o after, Except("CalledProcessError"),
                 FALSE, f2)
        ELSE Res(l2 \o WriteFile(full_file_path) \o after, "msg", TRUE, f2)

\* Engine with the two branches of the conditional swapped.
EngineSwapped(db_path) == IF EndsWith(db_path, sDb) THEN "duckdb_connect" ELSE "sqlite_connect"

\* B5: sqlite3 if db_path ends with '.db', else duckdb.
Engine(db_path) == IF EndsWith(db_path, sDb) THEN "sqlite_connect" ELSE "duckdb_connect"

\* B5: run a query and dump the rows.
B5(db_path, query, output_filename, f, e) ==
    LET g1 == <<GuardEv(db_path)>>
        g2 == g1 \o <<GuardEv(output_filename)>>
        f1 == f \cup {db_path}
        c == g2 \o <<Ev(Engine(db_path), db_path, "ok")>>
    IN  IF ~B12(db_path) THEN Res(g1, "None", FALSE, f)
        ELSE IF ~B12(output_filename) THEN Res(g2, "None", FALSE, f)
        ELSE IF e = "connect"
        THEN Res(g2 \o <<Ev(Engine(db_path), db_path, "fail")>>, "raise", FALSE, f)
        ELSE IF e = "execute"
        THEN Res(c \o <<Ev("execute", query, "fail")>>, "raise", FALSE, f1)
        ELSE IF e = "fetch"
        THEN Res(c \o <<Ev("execute", query, "ok"), Ev("fetchall", query, "fail")>>,
                 "raise", FALSE, f1)
        ELSE LET d == c \o <<Ev("execute", query, "ok"), Ev("fetchall", query, "ok"),
                            Ev("conn_close", db_path, "ok")>>
             IN  IF e = "openw"
                 THEN Res(d \o <<Ev("open_w", output_filename, "fail")>>, "raise", FALSE, f1)
                 ELSE Res(d \o WriteFile(output_filename), "rows", TRUE,
                          f1 \cup {output_filename})

\* B6: fetch a page and save its text.
B6(url, output_filename, f, e) ==
    LET g == <<GuardEv(output_filename)>>
    IN  IF ~B12(output_filename) THEN Res(g, "None", FALSE, f)
        ELSE IF e = "http"
             THEN Res(g \o <<Ev("http_get", url, "fail")>>, "raise", FALSE, f)
        ELSE IF e = "openw"
             THEN Res(g \o <<Ev("http_get", url, "ok"), Ev("open_w", output_filename, "fail")>>,
                      "raise", FALSE, f)
        ELSE Res(g \o <<Ev("http_get", url, "ok")>> \o WriteFile(output_filename),
                 "None", TRUE, f \cup {output_filename})

\* B7: open an image, optionally resize it, save it.
B7(image_path, output_path, resize, f, e) ==
    LET g1 == <<GuardEv(image_path)>>
        g2 == g1 \o <<GuardEv(output_path)>>
        o == g2 \o <<Ev("img_open", image_path, "ok")>>
                \o (IF resize # None THEN <<Ev("resize", resize, "ok")>> ELSE <<>>)
    IN  IF ~B12(image_path) THEN Res(g1, "None", FALSE, f)
        ELSE IF ~B12(output_path) THEN Res(g2, "None", FALSE, f)
        ELSE IF image_path \notin f \/ e = "imgopen"
        THEN Res(g2 \o <<Ev("img_open", image_path, "fail")>>, "raise", FALSE, f)
        ELSE IF e = "imgsave"
        THEN Res(o \o <<Ev("img_save", output_path, "fail")>>, "raise", FALSE, f)
        ELSE Res(o \o <<Ev("img_save", output_path, "ok")>>, "None", TRUE,
                 f \cup {output_path})

\* B8: transcribe an audio file; every exception is caught.
B8(audio_path, f, e) ==
    LET x == <<Ev("exists", audio_path, IF audio_path \in f THEN "ok" ELSE "absent")>>
        g == x \o <<GuardEv(audio_path)>>
    IN  IF audio_path \notin f THEN Res(x, "None", FALSE, f)
        ELSE IF ~B12(audio_path) THEN Res(g, "None", FALSE, f)
        ELSE IF e = "model"
        THEN Res(g \o <<Ev("load_model", audio_path, "fail")>>, "None", FALSE, f)
        ELSE IF e = "transcribe"
        THEN Res(g \o <<Ev("load_model", audio_path, "ok"),
                        Ev("transcribe", audio_path, "fail")>>, "None", FALSE, f)
        ELSE Res(g \o <<Ev("load_model", audio_path, "ok"),
                        Ev("transcribe", audio_path, "ok")>>, "text", TRUE, f)

\* B9: the output path used when output_file is None.
DerivedOutput(markdown_file) == Replace(markdown_file, sMd, sHtml)

\* B9: render a Markdown file to HTML; every exception is caught.
B9(markdown_file, output_file, f, e) ==
    LET g1 == <<GuardEv(markdown_file)>>
        g2 == g1 \o (IF output_file # None THEN <<GuardEv(output_file)>> ELSE <<>>)
        x == g2 \o <<Ev("exists", markdown_file,
                        IF markdown_file \in f THEN "ok" ELSE "absent")>>
        r == x \o <<Ev("open_r", markdown_file, "ok"), Ev("close_f", markdown_file, "ok")>>
        out == IF output_file = None THEN DerivedOutput(markdown_file) ELSE output_file
    IN  IF ~B12(markdown_file) THEN Res(g1, "None", FALSE, f)
        ELSE IF output_file # None /\ ~B12(output_file) THEN Res(g2, "None", FALSE, f)
        ELSE IF markdown_file \notin f THEN Res(x, "None", FALSE, f)
        ELSE IF e = "openr"
        THEN Res(x \o <<Ev("open_r", markdown_file, "fail")>>, "None", FALSE, f)
        ELSE IF e = "openw"
        THEN Res(r \o <<Ev("open_w", out, "fail")>>, "None", FALSE, f)
        ELSE Res(r \o WriteFile(out), "html", TRUE, f \cup {out})

\* B10: filter a CSV file; every exception is caught.
B10(csv_file, filter_column, filter_value, f, e) ==
    LET g == <<GuardEv(csv_file)>>
        x == g \o <<Ev("exists", csv_file, IF csv_file \in f THEN "ok" ELSE "absent")>>
    IN  IF ~B12(csv_file) THEN Res(g, "None", FALSE, f)
        ELSE IF csv_file \notin f THEN Res(x, "None", FALSE, f)
        ELSE IF e = "csv"
        THEN Res(x \o <<Ev("read_csv", csv_file, "fail")>>, "None", FALSE, f)
        ELSE IF e = "col"
        THEN Res(x \o <<Ev("read_csv", csv_file, "ok"),
                        Ev("column", filter_column, "absent")>>, "None", FALSE, f)
        ELSE Res(x \o <<Ev("read_csv", csv_file, "ok"),
                        Ev("column", filter_column, "ok")>>, "json", TRUE, f)

----------------------------------------------------------------------------

Init ==
    /\ fs = InitFiles
    /\ call = Args("none", None, None, None)
    /\ log = <<>>
    /\ ret = "None"
    /\ ok = TRUE
    /\ ncalls = 0

\* One whole call: its arguments, its log, what it returned and the files left.
Do(c, r) ==
    /\ ncalls < MaxCalls
    /\ ncalls' = ncalls + 1
    /\ call' = c
    /\ log' = r.log
    /\ ret' = r.ret
    /\ ok' = r.ok
    /\ fs' = r.fs

CallB3 ==
    \E p \in Paths, e \in {"none", "http", "openw"} :
        Do(Args("B3", uGit, p, None), B3(uGit, p, fs, e))

CallB4 ==
    \E u \in Urls, fp \in RelFiles, c \in Contents,
       e \in {"none", "gitbin", "sync", "openw", "add", "commit"} :
        Do(Args("B4", u, fp, c), B4(u, fp, c, fs, e))

CallB5 ==
    \E db \in Dbs, out \in Paths,
       e \in {"none", "connect", "execute", "fetch", "openw"} :
        Do(Args("B5", db, qSql, out), B5(db, qSql, out, fs, e))

CallB6 ==
    \E p \in Paths, e \in {"none", "http", "openw"} :
        Do(Args("B6", uPlain, p, None), B6(uPlain, p, fs, e))

CallB7 ==
    \E i \in Images, o \in Paths, rs \in Resizes,
       e \in {"none", "imgopen", "imgsave"} :
        Do(Args("B7", i, o, rs), B7(i, o, rs, fs, e))

CallB8 ==
    \E p \in Paths, e \in {"none", "model", "transcribe"} :
        Do(Args("B8", p, None, None), B8(p, fs, e))

CallB9 ==
    \E m \in Paths, o \in Paths \cup {None}, e \in {"none", "openr", "openw"} :
        Do(Args("B9", m, o, None), B9(m, o, fs, e))

CallB10 ==
    \E p \in Paths, e \in {"none", "csv", "col"} :
        Do(Args("B10", p, cCol, cVal), B10(p, cCol, cVal, fs, e))

Next ==
    \/ CallB3
    \/ CallB4
    \/ CallB5
    \/ CallB6
    \/ CallB7
    \/ CallB8
    \/ CallB9
    \/ CallB10

Spec == Init /\ [][Next]_vars

----------------------------------------------------------------------------
\* Vocabulary of the properties.

\* The path begins with the sandbox root prefix.
UnderRoot(p) == Len(p) >= 5 /\ SubSeq(p, 1, 5) = <<"/", "d", "a", "t", "a">>

GitOps == {"git_clone", "git_pull", "git_add", "git_commit", "git_push"}

ConnectOps == {"sqlite_connect", "duckdb_connect"}

\* Events that touch the file system at the path in arg.
PathIO == {"exists", "open_w", "open_r", "img_open", "img_save", "transcribe", "read_csv"}
            \cup GitOps \cup ConnectOps

\* Every I/O event.
AllIO == PathIO \cup {"http_get", "load_model"}

\* Events that write to the file system when they succeed.
WriteOps == {"open_w", "img_save", "git_clone", "git_pull"}

\* Events whose path the operation opens for writing or hands over as a target.
TargetOps == {"open_w", "img_save"} \cup GitOps \cup ConnectOps

At(ops) == {i \in DOMAIN log : log[i].op \in ops}

\* The write target of the last call (None when the operation has none).
WriteTarget ==
    CASE call.fn = "B3" -> call.a2
      [] call.fn = "B4" -> PathJoin(CloneDir(call.a1), call.a2)
      [] call.fn = "B5" -> call.a3
      [] call.fn = "B6" -> call.a2
      [] call.fn = "B7" -> call.a2
      [] call.fn = "B9" -> call.a2
      [] OTHER -> None

----------------------------------------------------------------------------
\* C1: a call whose write target is outside the sandbox root writes nothing
\* to the file system (clone and pull included) and returns None.
ClaimC1 ==
    (WriteTarget # None /\ ~UnderRoot(WriteTarget))
        => /\ \A i \in At(WriteOps) : log[i].st # "ok"
           /\ ret = "None"

\* C2: every path a call touches has been guarded before the call's first
\* I/O event.
ClaimC2 ==
    \A i \in At(AllIO) : \A k \in At(PathIO) :
        \E j \in 1..(i - 1) : log[j].op = "guard" /\ log[j].arg = log[k].arg

\* C3: no call ends with an exception propagating to the caller.
ClaimC3 == ret # "raise"

\* C4: a value returned by a failed call of an operation is never a value
\* returned by a successful call of the same operation.
ClaimC4 ==
    [][(/\ call'.fn = call.fn
        /\ ok # ok'
        /\ ret # "raise"
        /\ ret' # "raise") => ret' # ret]_vars

\* C5: in B5, when both guards pass exactly one engine is connected, SQLite
\* iff db_path ends with '.db'; when a guard fails no engine is connected and
\* no query is executed.
TheoremC5 ==
    call.fn = "B5" =>
        LET db == call.a1
            n == Len(db)
            endsDb == n >= 3 /\ db[n - 2] = "." /\ db[n - 1] = "d" /\ db[n] = "b"
        IN  IF UnderRoot(call.a1) /\ UnderRoot(call.a3)
            THEN /\ Cardinality(At(ConnectOps)) = 1
                 /\ \A i \in At(ConnectOps) : log[i].arg = db
                 /\ endsDb => At({"duckdb_connect"}) = {}
                 /\ ~endsDb => At({"sqlite_connect"}) = {}
            ELSE At(ConnectOps \cup {"execute", "fetchall"}) = {}

\* A B5 call that connected SQLite and ran the query to the end.
WitnessC5 ==
    /\ call.fn = "B5"
    /\ ok
    /\ At({"sqlite_connect"}) # {}
    /\ At({"execute"}) # {}

\* C6: every B4 call invokes exactly one of pull and clone, pull iff the
\* clone directory existed when the call started, and never a push.
TheoremC6 ==
    [][call'.fn = "B4" =>
        LET dir == sData \o sSlash \o Replace(LastSegment(call'.a1), sGit, sEmpty)
            pulls == {i \in DOMAIN log' : log'[i].op = "git_pull"}
            clones == {i \in DOMAIN log' : log'[i].op = "git_clone"}
            pushes == {i \in DOMAIN log' : log'[i].op = "git_push"}
        IN  /\ pushes = {}
            /\ Cardinality(pulls \cup clones) = 1
            /\ \A i \in pulls \cup clones : log'[i].arg = dir
            /\ dir \in fs => clones = {}
            /\ dir \notin fs => pulls = {}]_vars

\* A B4 call that pulled into the directory an earlier call had cloned.
WitnessC6 ==
    /\ call.fn = "B4"
    /\ call.a1 = uGit
    /\ At({"git_pull"}) # {}
    /\ ncalls = 2

\* C7, first part: a git invocation that exits non-zero is the last event of
\* the call and the call returns None.
C7Caught ==
    call.fn = "B4" =>
        \A i \in At(GitOps) : log[i].st = "nonzero" =>
            /\ i = Len(log)
            /\ ret = "None"
            /\ ~ok

\* C7, second part: B4 called again with the arguments of a call that just
\* succeeded, with git still launchable and the file still writable, returns
\* the success message or None.
C7Twice ==
    (/\ call.fn = "B4"
     /\ ok
     /\ call' = call
     /\ \A i \in DOMAIN log' : log'[i].st # "fail") => ret' \in {"msg", "None"}

\* C7: git failures are caught in B4, and a repeated B4 call does not raise.
TheoremC7 == [][C7Caught' /\ C7Twice]_vars

\* The repeated B4 call whose commit was rejected.
WitnessC7 ==
    /\ call.fn = "B4"
    /\ ncalls = 2
    /\ fs = InitFiles \cup {CloneDir(uGit), PathJoin(CloneDir(uGit), call.a2)}
    /\ At({"git_pull"}) # {}
    /\ \E i \in At({"git_commit"}) : log[i].st = "nonzero"
    /\ ret = "None"

\* C8: every connection and file handle a call opened is closed within the call.
ClaimC8 ==
    /\ \A i \in At(ConnectOps) : log[i].st = "ok" =>
           \E j \in (i + 1)..Len(log) :
               log[j].op = "conn_close" /\ log[j].arg = log[i].arg
    /\ \A i \in At({"open_w", "open_r"}) : log[i].st = "ok" =>
           \E j \in (i + 1)..Len(log) :
               log[j].op = "close_f" /\ log[j].arg = log[i].arg

\* C9: B9 without output_file writes the input path with only its trailing
\* '.md' replaced by '.html', which is never the input path.
ClaimC9 ==
    (call.fn = "B9" /\ call.a2 = None) =>
        \A i \in At({"open_w"}) :
            LET inp == call.a1
                n == Len(inp)
                trailing == n >= 3 /\ SubSeq(inp, n - 2, n) = <<".", "m", "d">>
                swapped == IF trailing
                           THEN SubSeq(inp, 1, n - 3) \o <<".", "h", "t", "m", "l">>
                           ELSE inp
            IN  log[i].arg = swapped /\ log[i].arg # inp

\* C10: every path a call opens for writing or passes as a clone, pull or
\* save target begins with the sandbox root prefix.
TheoremC10 == \A i \in At(TargetOps) : UnderRoot(log[i].arg)

\* A B9 call without output_file that wrote to the path it derived.
WitnessC10 ==
    /\ call.fn = "B9"
    /\ call.a2 = None
    /\ ok
    /\ \E i \in At({"open_w"}) : log[i].arg # call.a1
====
